---- MODULE Spec2Model ----
(***************************************************************************)
(* A model of the tson literal parser (src/src/lib.rs).                    *)
(*                                                                         *)
(* The input text is a sequence of characters (Unicode scalar values), one *)
(* one-character string per scalar value; "NBSP" stands for U+00A0, a      *)
(* Unicode White_Space character that is not ASCII whitespace.  The        *)
(* parsers are pure functions of the remaining input, so each is an        *)
(* operator from an input to a result record; the nom combinators the      *)
(* source is written with (tag, char, take, take_while, preceded,          *)
(* terminated, alt, separated_list0, double) are operators with nom's      *)
(* semantics for the default error type nom::error::Error, which holds the *)
(* input at which the error was raised and an error code.                  *)
(*                                                                         *)
(* The float lexemes modelled are [sign] digits ['.' [digits]] and         *)
(* [sign] '.' digits; exponents and the words nan / inf / infinity use     *)
(* characters that never follow a digit or start a token in the inputs     *)
(* below.                                                                  *)
(***************************************************************************)
EXTENDS Integers, Sequences, FiniteSets, TLC

VARIABLES input, op, res, tree, plain, how

vars == <<input, op, res, tree, plain, how>>

(***************************************************************************)
(* Characters and character classes.                                       *)
(***************************************************************************)
NBSP == "NBSP"

\* char::is_ascii_whitespace: U+0020, U+0009, U+000A, U+000C, U+000D.
IsAsciiWhitespace(ch) == ch \in {" ", "\t", "\n", "\f", "\r"}

\* char::is_whitespace (Unicode White_Space), which str::trim_start uses.
IsWhitespace(ch) == IsAsciiWhitespace(ch) \/ ch \in {NBSP, "VT"}

Digits == <<"0", "1", "2", "3", "4", "5", "6", "7", "8", "9">>

IsDigit(ch) == \E d \in 1..10 : Digits[d] = ch

DigitVal(ch) == (CHOOSE d \in 1..10 : Digits[d] = ch) - 1

Max(a, b) == IF a >= b THEN a ELSE b

Drop(s, n) == SubSeq(s, n + 1, Len(s))

StartsWith(s, t) == Len(s) >= Len(t) /\ SubSeq(s, 1, Len(t)) = t

IsSuffix(r, s) == Len(r) <= Len(s) /\ Drop(s, Len(s) - Len(r)) = r

(***************************************************************************)
(* IResult.  ok: Ok or Err; kind: "Ok", Err::Error ("Error") or            *)
(* Err::Failure ("Failure"); rest: the remaining input of a success, the   *)
(* input the error carries otherwise; val: the output; code: the error's   *)
(* ErrorKind.  Three more fields record the calls made while the result    *)
(* was computed: depth is the deepest nesting of parse_value calls below   *)
(* the call, maxcall the length of the longest input handed to parse_value *)
(* directly by the call (-1 if none), and progress says that every nested  *)
(* parse_value call was on an input shorter than its caller's and that     *)
(* every iteration of the list loop consumed input.                        *)
(***************************************************************************)
OkResult(rest, val) ==
    [ok |-> TRUE, kind |-> "Ok", rest |-> rest, val |-> val, code |-> "",
     depth |-> 0, maxcall |-> -1, progress |-> TRUE]

ErrResult(at, code) ==
    [ok |-> FALSE, kind |-> "Error", rest |-> at, val |-> <<>>, code |-> code,
     depth |-> 0, maxcall |-> -1, progress |-> TRUE]

\* F applied to the one element of S.  The element is computed once, however
\* often F uses it: every combinator below binds a parser's result this way.
Bind(S, F(_)) == CHOOSE r \in {F(a) : a \in S} : TRUE

\* b was computed after a, in the same call: b with a's calls added.
After(a, b) ==
    [b EXCEPT !.depth = Max(a.depth, b.depth),
              !.maxcall = Max(a.maxcall, b.maxcall),
              !.progress = a.progress /\ b.progress]

(***************************************************************************)
(* nom combinators.                                                        *)
(***************************************************************************)
\* bytes::complete::tag
Tag(t, i) ==
    IF StartsWith(i, t) THEN OkResult(Drop(i, Len(t)), t)
    ELSE ErrResult(i, "Tag")

\* character::complete::char
Char1(c, i) ==
    IF i # <<>> /\ Head(i) = c THEN OkResult(Tail(i), c)
    ELSE ErrResult(i, "Char")

\* bytes::complete::take(1_usize): one character, not one byte
Take1(i) ==
    IF i # <<>> THEN OkResult(Tail(i), <<Head(i)>>)
    ELSE ErrResult(i, "Eof")

RECURSIVE PrefixLen(_, _)
\* the length of the longest prefix of i whose characters satisfy P
PrefixLen(P(_), i) ==
    IF i # <<>> /\ P(Head(i)) THEN 1 + PrefixLen(P, Tail(i)) ELSE 0

\* bytes::complete::take_while: never fails
TakeWhile(P(_), i) ==
    Bind({PrefixLen(P, i)}, LAMBDA n : OkResult(Drop(i, n), SubSeq(i, 1, n)))

\* str::trim_start: drops leading Unicode White_Space
TrimStart(i) == Drop(i, PrefixLen(IsWhitespace, i))

\* sequence::preceded
Preceded(P(_), Q(_), i) ==
    Bind({P(i)}, LAMBDA a :
        IF ~a.ok THEN a ELSE Bind({Q(a.rest)}, LAMBDA b : After(a, b)))

\* sequence::terminated
Terminated(P(_), Q(_), i) ==
    Bind({P(i)}, LAMBDA a :
        IF ~a.ok THEN a
        ELSE Bind({Q(a.rest)}, LAMBDA b :
                 IF ~b.ok THEN After(a, b)
                 ELSE [After(a, b) EXCEPT !.val = a.val]))

\* sequence::delimited
Delimited(P(_), Q(_), R(_), i) ==
    Preceded(P, LAMBDA j : Terminated(Q, R, j), i)

RECURSIVE AltFrom(_, _)
\* the alternatives rs[k], rs[k+1], ... tried in order
AltFrom(rs, k) ==
    IF k = Len(rs) \/ rs[k].kind # "Error" THEN rs[k]
    ELSE After(rs[k], AltFrom(rs, k + 1))

\* branch::alt over the results of the alternatives, in order: the first
\* result that is not Err::Error; if there is none, the last error
\* (Error::or keeps the later error, Error::append keeps it unchanged).
Alt(rs) == Bind({rs}, LAMBDA s : AltFrom(s, 1))

\* Parser::map and combinator::value
MapVal(r, F(_)) ==
    Bind({r}, LAMBDA a : IF a.ok THEN [a EXCEPT !.val = F(a.val)] ELSE a)

(***************************************************************************)
(* enum Value.  A Float holds <<m, k>> for the number m / 10^k, with no    *)
(* trailing zero in the fraction (equal doubles have equal pairs); a       *)
(* String holds its characters; a List holds its elements; an Option holds *)
(* <<>> for None and <<v>> for Some(Box(v)).                               *)
(***************************************************************************)
VFloat(v) == [t |-> "Float", v |-> v]

VBoolean(v) == [t |-> "Boolean", v |-> v]

VString(v) == [t |-> "String", v |-> v]

VChar(v) == [t |-> "Char", v |-> v]

VList(v) == [t |-> "List", v |-> v]

VOption(v) == [t |-> "Option", v |-> v]

(***************************************************************************)
(* number::complete::double on the modelled lexemes.                       *)
(***************************************************************************)
\* the length of the float lexeme at the start of i, 0 if there is none
FloatLexLen(i) ==
    LET s  == IF i # <<>> /\ Head(i) \in {"+", "-"} THEN 1 ELSE 0
        a  == Drop(i, s)
        n1 == PrefixLen(IsDigit, a)
        b  == Drop(a, n1)
        dot == b # <<>> /\ Head(b) = "."
        n2 == IF dot THEN PrefixLen(IsDigit, Tail(b)) ELSE 0
    IN  IF n1 > 0 THEN s + n1 + (IF dot THEN 1 + n2 ELSE 0)
        ELSE IF dot /\ n2 > 0 THEN s + 1 + n2
        ELSE 0

RECURSIVE DigitsVal(_)
\* the number a string of digits denotes
DigitsVal(ds) ==
    IF ds = <<>> THEN 0
    ELSE 10 * DigitsVal(SubSeq(ds, 1, Len(ds) - 1)) + DigitVal(ds[Len(ds)])

RECURSIVE Normal(_, _)
\* m / 10^k without trailing zeros in the fraction
Normal(m, k) ==
    IF k > 0 /\ m % 10 = 0 THEN Normal(m \div 10, k - 1) ELSE <<m, k>>

\* the double a float lexeme denotes
FloatVal(lex) ==
    LET neg  == lex # <<>> /\ Head(lex) = "-"
        body == IF lex # <<>> /\ Head(lex) \in {"+", "-"} THEN Tail(lex) ELSE lex
        n1   == PrefixLen(IsDigit, body)
        frac == Drop(body, n1 + 1)
        mag  == DigitsVal(SubSeq(body, 1, n1) \o frac)
    IN  Normal(IF neg THEN -mag ELSE mag, Len(frac))

Double(i) ==
    Bind({FloatLexLen(i)}, LAMBDA n :
        IF n = 0 THEN ErrResult(i, "Float")
        ELSE OkResult(Drop(i, n), FloatVal(SubSeq(i, 1, n))))

(***************************************************************************)
(* The parsers of src/src/lib.rs.                                          *)
(***************************************************************************)
ParseWs(i) == TakeWhile(IsAsciiWhitespace, i)

ParseChar(i) ==
    MapVal(Delimited(LAMBDA j : Char1("'", j), Take1,
                     LAMBDA j : Char1("'", j), i),
           LAMBDA chr : Head(chr))

NotQuote(ch) == ch # "\""

ParseString(i) ==
    Bind({TrimStart(i)}, LAMBDA trimmed :
        Delimited(LAMBDA j : Char1("\"", j),
                  LAMBDA j : TakeWhile(NotQuote, j),
                  LAMBDA j : Char1("\"", j), trimmed))

TrueTag == <<"t", "r", "u", "e">>

FalseTag == <<"f", "a", "l", "s", "e">>

NoneTag == <<"N", "o", "n", "e">>

SomeTag == <<"S", "o", "m", "e", "(">>

\* parse_boolean accepting 1 as true as well
ParseBooleanNumeric(i) ==
    MapVal(Alt(<<Tag(TrueTag, i), Tag(FalseTag, i), Tag(<<"1">>, i)>>),
           LAMBDA boolean : boolean # FalseTag)

\* parse_boolean trimming leading whitespace, as parse_string does
ParseBooleanTrimmed(i) ==
    Bind({TrimStart(i)}, LAMBDA trimmed :
        MapVal(Alt(<<Tag(TrueTag, trimmed), Tag(FalseTag, trimmed)>>),
               LAMBDA boolean : boolean = TrueTag))

ParseBoolean(i) ==
    MapVal(Alt(<<Tag(TrueTag, i), Tag(FalseTag, i)>>),
           LAMBDA boolean : boolean = TrueTag)

ParseDouble(i) == Bind({TrimStart(i)}, Double)

RECURSIVE ParseValue(_), ParseOption(_), ParseList(_), SepLoop(_)

\* a call of parse_value made by parse_list or parse_option on input i
Rec(i) ==
    Bind({ParseValue(i)}, LAMBDA r :
        [r EXCEPT !.depth = r.depth + 1, !.maxcall = Len(i)])

\* parse_none matching "None" without consuming it
ParseNonePeek(i) ==
    Bind({Tag(NoneTag, i)}, LAMBDA r :
        IF r.ok THEN OkResult(i, <<>>) ELSE r)

ParseNone(i) == MapVal(Tag(NoneTag, i), LAMBDA x : <<>>)

\* parse_some without the closing parenthesis: preceded(tag, parse_value)
ParseSomeOpen(i) ==
    MapVal(Preceded(LAMBDA j : Tag(SomeTag, j), Rec, i), LAMBDA v : <<v>>)

ParseSome(i) ==
    MapVal(Preceded(LAMBDA j : Tag(SomeTag, j),
               LAMBDA j : Terminated(Rec,
                   LAMBDA k : Preceded(ParseWs, LAMBDA l : Char1(")", l), k),
                   j),
               i),
           LAMBDA v : <<v>>)

ParseOption(i) == Alt(<<ParseNone(i), ParseSome(i)>>)

\* the separator of the list: preceded(parse_ws, char(','))
ListSep(i) == Preceded(ParseWs, LAMBDA j : Char1(",", j), i)

\* the loop accepting a separator that no element follows
SepLoopTrailing(acc) ==
    Bind({ListSep(acc.rest)}, LAMBDA s :
        IF ~s.ok THEN acc
        ELSE Bind({Rec(s.rest)}, LAMBDA e :
                 IF e.kind = "Error"
                 THEN After(e, [acc EXCEPT !.rest = s.rest])
                 ELSE IF ~e.ok THEN After(acc, e)
                 ELSE Bind({After(acc,
                          [e EXCEPT !.val = Append(acc.val, e.val),
                                    !.progress = e.progress
                                        /\ Len(e.rest) < Len(acc.rest)])},
                          SepLoop)))

\* the loop of multi::separated_list0 after the first element; acc is the
\* list so far and the input after it
SepLoop(acc) ==
    Bind({ListSep(acc.rest)}, LAMBDA s :
        IF s.kind = "Error" THEN acc
        ELSE IF ~s.ok THEN After(acc, s)
        ELSE IF Len(s.rest) = Len(acc.rest)
             THEN After(acc, ErrResult(s.rest, "SeparatedList"))
        ELSE Bind({Rec(s.rest)}, LAMBDA e :
                 IF e.kind = "Error" THEN After(e, acc)
                 ELSE IF ~e.ok THEN After(acc, e)
                 ELSE Bind({After(acc,
                          [e EXCEPT !.val = Append(acc.val, e.val),
                                    !.progress = e.progress
                                        /\ Len(e.rest) < Len(acc.rest)])},
                          SepLoop)))

\* separated_list0(preceded(parse_ws, char(',')), parse_value)
SeparatedList0(i) ==
    Bind({Rec(i)}, LAMBDA e :
        IF e.kind = "Error" THEN After(e, OkResult(i, <<>>))
        ELSE IF ~e.ok THEN e
        ELSE Bind({[e EXCEPT !.val = <<e.val>>]}, SepLoop))

ParseList(i) ==
    Preceded(LAMBDA j : Char1("[", j),
        LAMBDA j : Terminated(SeparatedList0,
            LAMBDA k : Preceded(ParseWs, LAMBDA l : Char1("]", l), k),
            j),
        i)

\* the six alternatives of parse_value, in the order of the source
Alternatives(i) ==
    << MapVal(ParseList(i), VList),
       MapVal(ParseOption(i), VOption),
       MapVal(ParseDouble(i), VFloat),
       MapVal(ParseChar(i), VChar),
       MapVal(ParseString(i), VString),
       MapVal(ParseBoolean(i), VBoolean) >>

ParseValue(i) ==
    Bind({Alt(Alternatives(i))}, LAMBDA a :
        [a EXCEPT !.progress = a.progress /\ a.maxcall < Len(i),
                  !.maxcall = -1])

(***************************************************************************)
(* Inputs.  The texts handed to the parsers are concatenations of at most  *)
(* MaxTokens fragments of one of the lexicons below, and the renderings of *)
(* Value trees of at most MaxNodes nodes.                                  *)
(***************************************************************************)
MaxTokens == 3

MaxNodes == 3

MaxWs == 1

GeneralLexicon ==
    { <<"[">>, <<"]">>, <<",">>, <<" ">>, <<")">>, <<"1">>, NoneTag, SomeTag }

CharLexicon == { <<"'">>, <<"a">>, <<"b">>, <<" ">> }

StringLexicon == { <<"\"">>, <<"a">>, <<" ">>, <<NBSP>>, <<"\t">> }

BooleanLexicon ==
    { TrueTag, FalseTag, <<"T", "r", "u", "e">>, <<"F", "a", "l", "s", "e">>,
      <<" ">>, <<"1">> }

FloatLexicon == { <<"2">>, <<"0">>, <<".">>, <<"-">>, <<"+">>, <<" ">> }

Lexicons ==
    {GeneralLexicon, CharLexicon, StringLexicon, BooleanLexicon, FloatLexicon}

RECURSIVE Texts(_, _)
\* the concatenations of at most n fragments of lex
Texts(lex, n) ==
    IF n = 0 THEN {<<>>}
    ELSE {<<>>} \cup {f \o t : f \in lex, t \in Texts(lex, n - 1)}

Leaves ==
    { VFloat(<<2, 0>>), VFloat(<<-25, 1>>), VBoolean(TRUE), VBoolean(FALSE),
      VChar("a"), VString(<<"a", " ">>), VOption(<<>>) }

RECURSIVE TreesOf(_), ForestsOf(_)
\* the sequences of trees with m nodes in all
ForestsOf(m) ==
    IF m = 0 THEN {<<>>}
    ELSE UNION { {<<t>> \o f : t \in TreesOf(k), f \in ForestsOf(m - k)} :
                 k \in 1..m }

\* the Value trees with n nodes
TreesOf(n) ==
    IF n = 1 THEN Leaves \cup {VList(<<>>)}
    ELSE {VOption(<<t>>) : t \in TreesOf(n - 1)}
         \cup {VList(f) : f \in ForestsOf(n - 1)}

Trees == UNION {TreesOf(n) : n \in 1..MaxNodes}

(***************************************************************************)
(* The textual form of a Value (section 6 of the specification), with the  *)
(* whitespace w written at the ws? positions of kind pos.                  *)
(***************************************************************************)
WsPositions ==
    { "after_open", "before_comma", "after_comma", "before_close",
      "before_paren", "before_float", "before_string" }

RECURSIVE DigitsOf(_)
\* the decimal digits of a natural number
DigitsOf(n) ==
    IF n < 10 THEN <<Digits[n + 1]>>
    ELSE DigitsOf(n \div 10) \o <<Digits[(n % 10) + 1]>>

RECURSIVE ZeroPad(_, _)
ZeroPad(ds, n) == IF Len(ds) >= n THEN ds ELSE ZeroPad(<<"0">> \o ds, n)

\* the decimal literal of m / 10^k
RenderFloat(f) ==
    LET m  == f[1]
        k  == f[2]
        ds == ZeroPad(DigitsOf(IF m < 0 THEN -m ELSE m), k + 1)
        ip == SubSeq(ds, 1, Len(ds) - k)
    IN  (IF m < 0 THEN <<"-">> ELSE <<>>)
        \o (IF k = 0 THEN ip ELSE ip \o <<".">> \o Drop(ds, Len(ds) - k))

RECURSIVE RenderWs(_, _, _), RenderItems(_, _, _)
RenderItems(vs, pos, w) ==
    LET W(p) == IF pos \in {p, "all"} THEN w ELSE <<>> IN
    IF vs = <<>> THEN <<>>
    ELSE IF Len(vs) = 1 THEN RenderWs(Head(vs), pos, w)
    ELSE RenderWs(Head(vs), pos, w) \o W("before_comma") \o <<",">>
         \o W("after_comma") \o RenderItems(Tail(vs), pos, w)

RenderWs(v, pos, w) ==
    LET W(p) == IF pos \in {p, "all"} THEN w ELSE <<>> IN
    CASE v.t = "Float"   -> W("before_float") \o RenderFloat(v.v)
      [] v.t = "Boolean" -> IF v.v THEN TrueTag ELSE FalseTag
      [] v.t = "Char"    -> <<"'", v.v, "'">>
      [] v.t = "String"  -> W("before_string") \o <<"\"">> \o v.v \o <<"\"">>
      [] v.t = "Option"  ->
            IF v.v = <<>> THEN NoneTag
            ELSE SomeTag \o RenderWs(v.v[1], pos, w) \o W("before_paren")
                 \o <<")">>
      [] v.t = "List"    ->
            <<"[">> \o W("after_open") \o RenderItems(v.v, pos, w)
            \o W("before_close") \o <<"]">>

Render(v) == RenderWs(v, "none", <<>>)

Spaces(n) == [k \in 1..n |-> " "]

Inputs ==
    UNION {Texts(lex, MaxTokens) : lex \in Lexicons}
    \cup {Render(t) : t \in Trees}

(***************************************************************************)
(* The state machine.  input is the text to parse; op is "ready" before a  *)
(* parser is called and the parser's name after; res is the parser's       *)
(* result.  tree, plain and how say where the text comes from: the Value   *)
(* rendered, its plain rendering, and the way input was made from it.      *)
(***************************************************************************)
NoTree == [t |-> "none", v |-> <<>>]

NoResult ==
    [ok |-> FALSE, kind |-> "None", rest |-> <<>>, val |-> <<>>, code |-> "",
     depth |-> 0, maxcall |-> -1, progress |-> TRUE]

Init ==
    /\ input \in Inputs
    /\ op = "ready"
    /\ res = NoResult
    /\ tree = NoTree
    /\ plain = <<>>
    /\ how = "given"

Call(name, r) ==
    /\ op = "ready"
    /\ op' = name
    /\ res' = r
    /\ UNCHANGED <<input, tree, plain, how>>

CallParseValue == Call("parse_value", ParseValue(input))

CallParseOption == Call("parse_option", ParseOption(input))

CallParseWs == Call("parse_ws", ParseWs(input))

CallParseList == Call("parse_list", ParseList(input))

CallParseChar == Call("parse_char", ParseChar(input))

CallParseString == Call("parse_string", ParseString(input))

CallParseBoolean == Call("parse_boolean", ParseBoolean(input))

CallParseDouble == Call("parse_double", ParseDouble(input))

Next ==
    \/ CallParseValue
    \/ CallParseOption
    \/ CallParseWs
    \/ CallParseList
    \/ CallParseChar
    \/ CallParseString
    \/ CallParseBoolean
    \/ CallParseDouble

Spec == Init /\ [][Next]_vars

(***************************************************************************)
(* The second specification starts from a Value tree.  The tree is written *)
(* out in its textual form: plainly, with text after it, with whitespace   *)
(* at the ws? positions of one kind (or of all kinds), or - a list - with  *)
(* one of the damages below; then the text is parsed.                      *)
(***************************************************************************)
Tails == { <<"]">>, <<",", "2">>, <<" ", "x">> }

Damages ==
    {"missing_close", "trailing_comma", "bad_separator", "missing_separator",
     "bad_element"}

RECURSIVE JoinWith(_, _)
\* the plain renderings of vs with sep between them
JoinWith(vs, sep) ==
    IF vs = <<>> THEN <<>>
    ELSE IF Len(vs) = 1 THEN Render(Head(vs))
    ELSE Render(Head(vs)) \o sep \o JoinWith(Tail(vs), sep)

\* the text of the list vs with damage d
Damaged(vs, d) ==
    CASE d = "missing_close"     -> <<"[">> \o JoinWith(vs, <<",">>)
      [] d = "trailing_comma"    -> <<"[">> \o JoinWith(vs, <<",">>) \o <<",", "]">>
      [] d = "bad_separator"     -> <<"[">> \o JoinWith(vs, <<";">>) \o <<"]">>
      [] d = "missing_separator" -> <<"[">> \o JoinWith(vs, <<" ">>) \o <<"]">>
      [] d = "bad_element"       ->
            <<"[">> \o JoinWith(SubSeq(vs, 1, Len(vs) - 1), <<",">>)
            \o (IF Len(vs) > 1 THEN <<",">> ELSE <<>>) \o <<"x", "]">>

InitR ==
    /\ tree \in Trees
    /\ op = "tree"
    /\ input = <<>>
    /\ res = NoResult
    /\ plain = <<>>
    /\ how = "none"

Write(text, way) ==
    /\ op = "tree"
    /\ op' = "ready"
    /\ input' = text
    /\ plain' = Render(tree)
    /\ how' = way
    /\ UNCHANGED <<tree, res>>

RenderPlain == Write(Render(tree), "plain")

RenderTail == \E t \in Tails : Write(Render(tree) \o t, "tail")

RenderSpaced ==
    \E pos \in WsPositions \cup {"all"}, n \in 1..MaxWs :
        Write(RenderWs(tree, pos, Spaces(n)), pos)

RenderDamaged ==
    \E d \in Damages :
        /\ tree.t = "List"
        /\ d \in {"bad_separator", "missing_separator"} => Len(tree.v) >= 2
        /\ d = "bad_element" => Len(tree.v) >= 1
        /\ Write(Damaged(tree.v, d), d)

NextR ==
    \/ RenderPlain
    \/ RenderTail
    \/ RenderSpaced
    \/ RenderDamaged
    \/ CallParseValue
    \/ CallParseList

SpecR == InitR /\ [][NextR]_vars

(***************************************************************************)
(* Properties of the rendered texts (SpecR).                               *)
(***************************************************************************)
WsWays == WsPositions \cup {"all"}

\* C1: whitespace inserted at the ws? positions of the grammar (after '[',
\* before and after ',', before ']', before ')', before a float, before a
\* string) leaves parse_value successful with the same Value as the text
\* without the whitespace, whatever kind of element follows the whitespace.
C1_WhitespaceInvariance ==
    (op = "parse_value" /\ how \in WsWays)
        => Bind({ParseValue(plain)}, LAMBDA p :
               p.ok => (res.ok /\ res.val = p.val))

\* C2: the textual form of a Value tree parses, with nothing left over, to a
\* Value equal to the tree.
C2_RoundTrip ==
    (op = "parse_value" /\ how = "plain")
        => (res.ok /\ res.rest = <<>> /\ res.val = tree)

C2_Witness ==
    /\ op = "parse_value" /\ how = "plain" /\ res.ok
    /\ tree.t = "List" /\ Len(tree.v) = 2
    /\ tree.v[1].t = "Float" /\ tree.v[1].v[2] > 0
    /\ tree.v[2].t = "Boolean"

\* C6: parse_list on '[' e1 ',' ... ',' en ']' followed by any text returns
\* n values, the i-th being the parse of ei, in order, and the text after
\* ']' as the remainder ("[]" gives no value, "[[]]" one empty list); it
\* fails when the closing ']' is missing, when a separator is malformed or
\* missing or a ',' trails before ']', and when an element does not parse.
C6_ListParse ==
    (op = "parse_list" /\ tree.t = "List")
        => /\ how \in {"plain", "tail"} =>
                /\ res.ok
                /\ Len(res.val) = Len(tree.v)
                /\ \A k \in 1..Len(tree.v) :
                       Bind({ParseValue(Render(tree.v[k]))}, LAMBDA e :
                           e.ok /\ e.rest = <<>> /\ res.val[k] = e.val)
                /\ res.rest = Drop(input, Len(plain))
                /\ tree.v = <<>> => res.val = <<>>
                /\ tree.v = <<VList(<<>>)>> => res.val = <<VList(<<>>)>>
           /\ how \in Damages => ~res.ok

C6_Witness ==
    /\ op = "parse_list" /\ how = "tail" /\ res.ok
    /\ Len(res.val) = 2 /\ res.val[1].t = "List" /\ res.rest # <<>>

(***************************************************************************)
(* Properties of the parsers on the given texts (Spec).                    *)
(***************************************************************************)
Committed(i) == (i # <<>> /\ Head(i) = "[") \/ StartsWith(i, SomeTag)

\* C3: once parse_value has matched a leading '[' or "Some(", a later
\* failure inside that alternative is a hard failure (Err::Failure) of the
\* whole parse, not the recoverable kind (Err::Error) after which the
\* remaining alternatives are tried.
C3_CommitIsHard ==
    (op = "parse_value" /\ Committed(input) /\ ~res.ok)
        => res.kind = "Failure"

\* C4: a failure of parse_value on an input that starts a list or a
\* "Some(" carries the position inside the input where matching stopped,
\* not the start of the input.
C4_ErrorLocation ==
    (op = "parse_value" /\ Committed(input) /\ ~res.ok)
        => (IsSuffix(res.rest, input) /\ Len(res.rest) < Len(input))

\* the result of parse_value with its alternatives tried in the order perm
Permuted(alts, perm) == AltFrom([k \in 1..6 |-> alts[perm[k]]], 1)

\* C5: at most one of the six sub-parsers succeeds on an input; parse_value
\* returns that sub-parser's remainder and Value, fails exactly when all six
\* fail, and succeeds with the same remainder and Value, or fails, under
\* every order of the six alternatives.
C5_UnambiguousDispatch ==
    op = "parse_value"
        => Bind({Alternatives(input)}, LAMBDA alts :
               LET oks == {k \in 1..6 : alts[k].ok} IN
               /\ Cardinality(oks) <= 1
               /\ res.ok <=> oks # {}
               /\ \A k \in oks :
                      res.rest = alts[k].rest /\ res.val = alts[k].val
               /\ \A perm \in Permutations(1..6) :
                      LET r == Permuted(alts, perm) IN
                          /\ r.ok = res.ok
                          /\ r.ok => (r.rest = res.rest /\ r.val = res.val))

C5_Witness ==
    /\ op = "parse_value" /\ res.ok /\ res.val.t = "String"
    /\ input # <<>> /\ Head(input) = " "

\* C7: parse_char succeeds exactly on a quote, one character that is not
\* the quote, and a quote; it returns that character and the text after the
\* closing quote.
C7_CharExact ==
    op = "parse_char"
        => /\ res.ok <=> /\ Len(input) >= 3
                         /\ input[1] = "'" /\ input[2] # "'" /\ input[3] = "'"
           /\ res.ok => (res.val = input[2] /\ res.rest = Drop(input, 3))

\* C8: parse_string succeeds exactly on ASCII whitespace, a double quote,
\* characters other than the double quote, and a double quote; it returns
\* the characters between the quotes and the text after the closing quote.
C8_StringExact ==
    op = "parse_string"
        => LET body == Drop(input, PrefixLen(IsAsciiWhitespace, input))
               n    == PrefixLen(NotQuote, Drop(body, 1))
           IN  /\ res.ok <=> /\ body # <<>> /\ Head(body) = "\""
                             /\ Len(body) >= n + 2
               /\ res.ok => /\ res.val = SubSeq(body, 2, n + 1)
                            /\ res.rest = Drop(body, n + 2)

\* C9: parse_boolean succeeds exactly when the input starts with "true" or
\* with "false" (case-sensitive, no whitespace before it); it returns the
\* boolean and the text right after the literal.
C9_BooleanExact ==
    op = "parse_boolean"
        => /\ res.ok <=> (StartsWith(input, TrueTag) \/ StartsWith(input, FalseTag))
           /\ StartsWith(input, TrueTag)
                  => (res.val = TRUE /\ res.rest = Drop(input, 4))
           /\ StartsWith(input, FalseTag)
                  => (res.val = FALSE /\ res.rest = Drop(input, 5))
           /\ input = FalseTag \o <<" ">> \o FalseTag
                  => res.rest = <<" ">> \o FalseTag
           /\ input \in {<<"T", "r", "u", "e">>, <<"F", "a", "l", "s", "e">>,
                         <<"1">>, <<" ">> \o TrueTag}
                  => ~res.ok

C9_Witness ==
    /\ op = "parse_boolean" /\ res.ok /\ res.val = FALSE
    /\ input = FalseTag \o <<" ">> \o FalseTag

\* C10: a successful parse_value consumes at least one character and leaves
\* a proper suffix of its input; every parse_value call made by parse_list
\* or parse_option is on an input shorter than the caller's and every
\* iteration of the list loop consumes input; the nesting of those calls is
\* at most the length of the input, and every call returns.
C10_Progress ==
    /\ (op = "parse_value" /\ res.ok)
           => (Len(res.rest) < Len(input) /\ IsSuffix(res.rest, input))
    /\ op \in {"parse_value", "parse_list", "parse_option"}
           => /\ res.progress
              /\ res.maxcall < Len(input)
              /\ res.depth <= Len(input)
    /\ op = "ready"
           => /\ ParseValue(input).kind \in {"Ok", "Error", "Failure"}
              /\ ParseList(input).kind \in {"Ok", "Error", "Failure"}
              /\ ParseOption(input).kind \in {"Ok", "Error", "Failure"}

C10_Witness ==
    /\ op = "parse_value" /\ res.ok /\ res.depth = 2
    /\ res.val.t = "List" /\ Len(res.val.v) = 2

====
